---- MODULE Spec2Model ----
(***************************************************************************)
(* Model of generate.py: the ISERV STAC catalog generator.  One pass over  *)
(* the source bucket's listing builds the catalog tree and writes one item *)
(* document per legacy record; a second pass writes the catalog documents. *)
(* Strings that the program splits, joins, parses or matches by suffix are *)
(* sequences of one-character strings; all other strings are atoms.        *)
(***************************************************************************)
EXTENDS Integers, Sequences, FiniteSets, TLC

\* Longest listing of the source bucket that is explored.
MaxKeys == 3

\* Longest list-shape "assets" value that is explored.
MaxEntries == 2

VARIABLES
    listing,      \* source_bucket.objects.all(): the keys, in listing order
    idx,          \* position of the for loop in the listing
    pc,           \* "loop", "try", "done", "aborted"; "norm", "normed"
    catalogs,     \* the dict catalogs: map key -> node [id, description, links]
    order,        \* insertion order of the dict catalogs (its iteration order)
    created,      \* history: ids of the Catalog(...) constructions, in order
    key,          \* the variable key: the listed object, or the rebound string
    catalog_id,   \* the variable catalog_id after the component loop
    catalog,      \* the variable catalog (the map key of the node it refers to)
    old_item,     \* the variable old_item: unbound, or the parsed legacy record
    source,       \* history: the last record read, as the source bucket holds it
    new_assets,   \* the variable new_assets of the last normalization
    target,       \* history of target_bucket puts: [key, kind, doc], in order
    emitted,      \* what print() has written for the operator, in order
    error,        \* "none", or the exception that terminates the run
    fault,        \* history: the first exception raised, its key and record
    widx          \* position of the final loop over catalogs.values()

vars == <<listing, idx, pc, catalogs, order, created, key, catalog_id, catalog,
          old_item, source, new_assets, target, emitted, error, fault, widx>>

----------------------------------------------------------------------------
(* Strings *)

Slash == "/"
DotJson == <<".", "j", "s", "o", "n">>
CatalogJson == <<"c", "a", "t", "a", "l", "o", "g">> \o DotJson
IservJson == <<"i", "s", "e", "r", "v">> \o DotJson
ProductJson == <<"p", "r", "o", "d", "u", "c", "t">> \o DotJson
RootKey == <<"r", "o", "o", "t">>
RootId == <<"I", "S", "E", "R", "V">>
StacVersion == <<"0", ".", "6", ".", "1">>
root_prefix == <<"https://iserv-stac.s3.amazonaws.com/">> \o StacVersion \o <<Slash>>
root_href == root_prefix \o CatalogJson
ParentHref == <<".", ".", Slash>> \o CatalogJson
SourceUrl == <<"https://radiant-nasa-iserv.s3.amazonaws.com/">>

\* str.endswith
EndsWith(s, suffix) ==
    /\ Len(s) >= Len(suffix)
    /\ SubSeq(s, Len(s) - Len(suffix) + 1, Len(s)) = suffix

\* str.split("/")
RECURSIVE Split(_)
Split(s) ==
    LET slashes == {i \in 1..Len(s) : s[i] = Slash}
    IN  IF slashes = {} THEN <<s>>
        ELSE LET i == CHOOSE j \in slashes : \A k \in slashes : j <= k
             IN  <<SubSeq(s, 1, i - 1)>> \o Split(SubSeq(s, i + 1, Len(s)))

\* "/".join(parts)
RECURSIVE Join(_)
Join(parts) ==
    IF Len(parts) = 0 THEN <<>>
    ELSE IF Len(parts) = 1 THEN parts[1]
    ELSE parts[1] \o <<Slash>> \o Join(Tail(parts))

----------------------------------------------------------------------------
(* datetime.strptime on "%Y/%m" and "%Y/%m/%d" *)

DigitValue ==
    [c \in {"0", "1", "2", "3", "4", "5", "6", "7", "8", "9"} |->
        CASE c = "0" -> 0 [] c = "1" -> 1 [] c = "2" -> 2 [] c = "3" -> 3
          [] c = "4" -> 4 [] c = "5" -> 5 [] c = "6" -> 6 [] c = "7" -> 7
          [] c = "8" -> 8 [] c = "9" -> 9]

IsDigits(s) == \A i \in 1..Len(s) : s[i] \in DOMAIN DigitValue

RECURSIVE ToInt(_)
ToInt(s) ==
    IF Len(s) = 0 THEN 0
    ELSE 10 * ToInt(SubSeq(s, 1, Len(s) - 1)) + DigitValue[s[Len(s)]]

\* %Y: exactly four digits, and a year datetime accepts
YearOk(s) == Len(s) = 4 /\ IsDigits(s) /\ ToInt(s) >= 1

\* %m: 1[0-2] | 0[1-9] | [1-9], with nothing left over
MonthOk(s) == Len(s) \in {1, 2} /\ IsDigits(s) /\ ToInt(s) \in 1..12

\* %d: 3[01] | [12]\d | 0[1-9] | [1-9] | " "[1-9], with nothing left over
DayText(s) == IF Len(s) = 2 /\ s[1] = " " THEN Tail(s) ELSE s

DayOk(s) ==
    /\ Len(s) \in {1, 2}
    /\ IsDigits(DayText(s))
    /\ ToInt(DayText(s)) \in 1..31
    /\ (Len(s) = 2 /\ s[1] = " ") => ToInt(DayText(s)) \in 1..9

IsLeap(y) == (y % 4 = 0 /\ y % 100 # 0) \/ y % 400 = 0

DaysInMonth(y, m) ==
    IF m = 2 THEN (IF IsLeap(y) THEN 29 ELSE 28)
    ELSE IF m \in {4, 6, 9, 11} THEN 30 ELSE 31

MonthName ==
    <<"January", "February", "March", "April", "May", "June", "July",
      "August", "September", "October", "November", "December">>

\* strptime(catalog_id, "%Y/%m") or "%Y/%m/%d" (fields = 2 or 3): the parsed
\* date, or [ok |-> FALSE] where Python raises ValueError
Strptime(s, fields) ==
    LET p == Split(s)
    IN  IF /\ Len(p) = fields
           /\ YearOk(p[1])
           /\ MonthOk(p[2])
           /\ fields = 3 => /\ DayOk(p[3])
                            /\ ToInt(DayText(p[3])) <=
                                   DaysInMonth(ToInt(p[1]), ToInt(p[2]))
        THEN [ok |-> TRUE, year |-> ToInt(p[1]), month |-> ToInt(p[2]),
              day |-> IF fields = 3 THEN ToInt(DayText(p[3])) ELSE 1]
        ELSE [ok |-> FALSE]

\* the description of a new node at depth len(parents) + 1
Description(id, depth) ==
    IF depth = 1 THEN [ok |-> TRUE, text |-> <<"Imagery from", id>>]
    ELSE LET d == Strptime(id, depth)
         IN  IF ~d.ok THEN [ok |-> FALSE]
             ELSE IF depth = 2
                  THEN [ok |-> TRUE,
                        text |-> <<"Imagery from", MonthName[d.month], d.year>>]
                  ELSE [ok |-> TRUE,
                        text |-> <<"Imagery from", MonthName[d.month], d.day, d.year>>]

----------------------------------------------------------------------------
(* Python dicts are functions on strings *)

None == "None"

Put(d, k, v) == [x \in DOMAIN d \cup {k} |-> IF x = k THEN v ELSE d[x]]

Del(d, k) == [x \in DOMAIN d \ {k} |-> d[x]]

\* dict.get(k, default)
Get(d, k, default) == IF k \in DOMAIN d THEN d[k] ELSE default

EmptyDict == [x \in {} |-> None]

----------------------------------------------------------------------------
(* Asset normalization, lines 238-356 *)

\* source_prefix: the bucket URL and the key without its last segment
SourcePrefix(k) ==
    LET p == Split(k)
    IN  SourceUrl \o Join(SubSeq(p, 1, Len(p) - 1))

AbsoluteHref(prefix, href) == prefix \o <<Slash>> \o href

\* One statement of the mapping branch, applied in place to the legacy asset
\* a.  A statement that reads or deletes an absent field raises KeyError and
\* leaves a as the statements before it made it.
Statement(a, op, prefix) ==
    CASE op[1] = "href" ->
             IF "href" \in DOMAIN a
             THEN [ok |-> TRUE, a |-> Put(a, "href", AbsoluteHref(prefix, a["href"]))]
             ELSE [ok |-> FALSE, a |-> a]
      [] op[1] = "set" -> [ok |-> TRUE, a |-> Put(a, op[2], op[3])]
      [] op[1] = "copy" ->
             IF op[3] \in DOMAIN a
             THEN [ok |-> TRUE, a |-> Put(a, op[2], a[op[3]])]
             ELSE [ok |-> FALSE, a |-> a]
      [] op[1] = "del" ->
             IF op[2] \in DOMAIN a
             THEN [ok |-> TRUE, a |-> Del(a, op[2])]
             ELSE [ok |-> FALSE, a |-> a]

RECURSIVE Statements(_, _, _)
\* the statements after one that gave r: none if it raised
After(r, ops, prefix) == IF r.ok THEN Statements(r.a, ops, prefix) ELSE r

Statements(a, ops, prefix) ==
    IF Len(ops) = 0 THEN [ok |-> TRUE, a |-> a]
    ELSE After(Statement(a, Head(ops), prefix), Tail(ops), prefix)

\* The roles of the mapping branch in program order: legacy key, output
\* key, whether the role is looked up only if present, and its statements.
DelName == <<"del", "name">>

TiffOps ==
    << <<"href">>, <<"set", "title", "RGB GeoTIFF">>,
       <<"set", "type", "image/vnd.stac.geotiff">>,
       <<"set", "eo:bands", <<0, 1, 2>> >>, DelName >>

TiffWorldOps ==
    << <<"href">>, <<"set", "title", "RGB GeoTIFF world file">>,
       <<"set", "type", "text/plain">>, DelName >>

JpegOps ==
    << <<"href">>, <<"copy", "title", "name">>,
       <<"set", "type", "image/jpeg">>, DelName >>

JpegOverviewOps ==
    << <<"href">>, <<"set", "title", "JPEG overviews">>,
       <<"set", "type", "image/tiff">>, DelName >>

JpegWorldOps ==
    << <<"href">>, <<"set", "title", "JPEG world file">>,
       <<"set", "type", "text/plain">>, DelName >>

ThumbnailOps ==
    << <<"href">>, <<"set", "title", "Thumbnail">>,
       <<"set", "type", "image/png">>, DelName >>

CogOps ==
    << <<"href">>, <<"copy", "title", "name">>,
       <<"set", "type", "image/vnd.stac.geotiff; cloud-optimized=true">>,
       <<"del", "format">>, DelName >>

MappingPlan ==
    << [role |-> "RGB Tif", out |-> "original TIFF", guarded |-> FALSE,
        ops |-> TiffOps],
       [role |-> "tiff world file", out |-> "original TIFF world file",
        guarded |-> TRUE, ops |-> TiffWorldOps],
       [role |-> "RGB JPEG", out |-> "JPEG", guarded |-> FALSE, ops |-> JpegOps],
       [role |-> "jpg overview", out |-> "JPEG overviews", guarded |-> FALSE,
        ops |-> JpegOverviewOps],
       [role |-> "jpeg world file", out |-> "JPEG world file", guarded |-> FALSE,
        ops |-> JpegWorldOps],
       [role |-> "thumbnail", out |-> "thumbnail", guarded |-> FALSE,
        ops |-> ThumbnailOps],
       [role |-> "cog", out |-> "visual", guarded |-> FALSE, ops |-> CogOps] >>

\* The mapping branch from role i on: [ok, assets (the legacy mapping as
\* mutated so far), out (new_assets so far)]
RECURSIVE NormalizeMapping(_, _, _, _)
\* role i once its statements gave r: the asset is stored under the output
\* key only if none of them raised
Stored(assets, out, prefix, i, step, r) ==
    IF r.ok
    THEN NormalizeMapping(Put(assets, step.role, r.a), Put(out, step.out, r.a),
                          prefix, i + 1)
    ELSE [ok |-> FALSE, assets |-> Put(assets, step.role, r.a), out |-> out]

\* every role looked up without a test for its presence
RoleRequired(assets, out, prefix, i, step) ==
    IF step.role \notin DOMAIN assets
    THEN [ok |-> FALSE, assets |-> assets, out |-> out]
    ELSE Stored(assets, out, prefix, i, step,
                Statements(assets[step.role], step.ops, prefix))

\* role i: assets[role] raises KeyError unless the role is only looked up
\* when present
Role(assets, out, prefix, i, step) ==
    IF step.role \notin DOMAIN assets
    THEN IF step.guarded
         THEN NormalizeMapping(assets, out, prefix, i + 1)
         ELSE [ok |-> FALSE, assets |-> assets, out |-> out]
    ELSE Stored(assets, out, prefix, i, step,
                Statements(assets[step.role], step.ops, prefix))

NormalizeMapping(assets, out, prefix, i) ==
    IF i > Len(MappingPlan) THEN [ok |-> TRUE, assets |-> assets, out |-> out]
    ELSE Role(assets, out, prefix, i, MappingPlan[i])

\* The suffix tests of the list branch in program order: suffix, output
\* key, title and media type.
ListPlan ==
    << [suffix |-> <<".", "T", "F", "W">>, out |-> "original TIFF world file",
        title |-> "RGB GeoTIFF world file", type |-> "text/plain"],
       [suffix |-> <<".", "J", "P", "G">>, out |-> "JPEG",
        title |-> "RGB JPEG", type |-> "image/jpeg"],
       [suffix |-> <<".", "p", "n", "g">>, out |-> "thumbnail",
        title |-> "Thumbnail", type |-> "image/png"],
       [suffix |-> <<".", "J", "G", "W">>, out |-> "JPEG world file",
        title |-> "JPEG world file", type |-> "text/plain"],
       [suffix |-> <<".", "J", "P", "G", ".", "o", "v", "r">>,
        out |-> "JPEG overviews", title |-> "JPEG overviews",
        type |-> "image/tiff"],
       [suffix |-> <<".", "T", "I", "F">>, out |-> "visual",
        title |-> "3-Band RGB GeoTIFF",
        type |-> "image/vnd.stac.geotiff; cloud-optimized=true"] >>

\* the tests an entry's href passes
Passed(asset) ==
    {i \in 1..Len(ListPlan) : EndsWith(asset["href"], ListPlan[i].suffix)}

\* The six if statements on one entry.  Each assigns a different key of
\* new_assets, so their order does not show in the result.
NormalizeEntry(asset, out, prefix) ==
    [k \in DOMAIN out \cup {ListPlan[i].out : i \in Passed(asset)} |->
        IF \E i \in Passed(asset) : ListPlan[i].out = k
        THEN LET t == ListPlan[CHOOSE i \in Passed(asset) : ListPlan[i].out = k]
             IN  [href |-> AbsoluteHref(prefix, asset["href"]),
                  title |-> t.title, type |-> t.type]
        ELSE out[k]]

\* the list branch from entry i on; an entry without href raises KeyError
RECURSIVE NormalizeList(_, _, _, _)
NormalizeList(assets, out, prefix, i) ==
    IF i > Len(assets) THEN [ok |-> TRUE, assets |-> assets, out |-> out]
    ELSE IF "href" \notin DOMAIN assets[i]
         THEN [ok |-> FALSE, assets |-> assets, out |-> out]
         ELSE NormalizeList(assets, NormalizeEntry(assets[i], out, prefix),
                            prefix, i + 1)

\* Lines 244-356.  A legacy assets value is [shape, body]: shape is the
\* JSON type the program dispatches on.  The result is [ok, assets, out]:
\* whether no KeyError was raised, the legacy value as left behind, and
\* new_assets.
MappingBranch(r) ==
    [ok |-> r.ok, assets |-> [shape |-> "dict", body |-> r.assets], out |-> r.out]

ListBranch(assets, r) == [ok |-> r.ok, assets |-> assets, out |-> r.out]

Normalize(assets, prefix) ==
    IF assets.shape = "dict"
    THEN MappingBranch(NormalizeMapping(assets.body, EmptyDict, prefix, 1))
    ELSE IF assets.shape = "list"
    THEN ListBranch(assets, NormalizeList(assets.body, EmptyDict, prefix, 1))
    ELSE [ok |-> TRUE, assets |-> assets, out |-> EmptyDict]

----------------------------------------------------------------------------
(* The source bucket *)

Y2013 == <<"2", "0", "1", "3">>
Y2014 == <<"2", "0", "1", "4">>
M03 == <<"0", "3">>
M3 == <<"3">>
M02 == <<"0", "2">>
D27 == <<"2", "7">>
D30 == <<"3", "0">>

Path(segments) == Join(segments)

\* Object keys a bucket may list: scenes of the same day, of an unpadded
\* month, of an impossible date, at the top level and under a folder called
\* root, and objects that are not scene metadata.
SourceKeys ==
    { Path(<<Y2013, M03, D27, <<"a">> \o DotJson>>),
      Path(<<Y2013, M03, D27, <<"b">> \o DotJson>>),
      Path(<<Y2013, M3, D27, <<"a">> \o DotJson>>),
      Path(<<Y2014, M02, D30, <<"a">> \o DotJson>>),
      Path(<<RootKey, M03, D27, <<"a">> \o DotJson>>),
      <<"a">> \o DotJson,
      Path(<<Y2013, M03, D27, <<"a", ".", "J", "P", "G">> >>),
      Path(<<Y2013, M03, D27, CatalogJson>>),
      Path(<<Y2013, M03, D27, <<"x">> \o IservJson>>),
      ProductJson }

\* the sequences of at most n distinct elements of S
DistinctSeqs(S, n) ==
    { q \in UNION { [1..m -> S] : m \in 0..n } :
        \A i, j \in 1..Len(q) : i # j => q[i] # q[j] }

\* the file name of a key without its five-character extension: a scene's
\* record carries the scene's name as its id
Stem(k) ==
    LET p == Split(k)
        name == p[Len(p)]
    IN  SubSeq(name, 1, Len(name) - Len(DotJson))

LegacyAsset(file) == [href |-> file, name |-> "legacy name"]

MappingAssets(stem, roles) ==
    [shape |-> "dict",
     body |-> [r \in roles |->
                 IF r = "cog"
                 THEN [href |-> stem \o <<".", "T", "I", "F">>,
                       name |-> "legacy name", format |-> "cog"]
                 ELSE LegacyAsset(stem \o <<".", r>>)]]

MandatoryRoles ==
    {"RGB Tif", "RGB JPEG", "jpg overview", "jpeg world file", "thumbnail", "cog"}

ListAssets(stem) ==
    [shape |-> "list",
     body |-> << [href |-> stem \o <<".", "J", "P", "G">>],
                 [href |-> stem \o <<".", "x", "m", "l">>] >>]

LegacyRecord(stem, properties, assets) ==
    [id |-> stem, bbox |-> "bbox", geometry |-> "geometry",
     properties |-> properties, assets |-> assets]

\* What the source bucket may hold under key k.  Scenes named b are of the
\* older, list-shape format and carry neither datetime nor start; the
\* others are mapping-shape records, complete or without the cog role.
RecordsFor(k) ==
    IF Stem(k) = <<"b">>
    THEN { LegacyRecord(Stem(k), EmptyDict, ListAssets(Stem(k))) }
    ELSE { LegacyRecord(Stem(k), [datetime |-> "2013-03-27T14:18:28Z",
                                  start |-> "2013-03-27T14:18:00Z"],
                        MappingAssets(Stem(k), MandatoryRoles)),
           LegacyRecord(Stem(k), [start |-> "2013-03-27T14:18:00Z"],
                        MappingAssets(Stem(k), MandatoryRoles \ {"cog"})) }

----------------------------------------------------------------------------
(* Key classification, lines 187-193 *)

IsSkip(k) ==
    \/ ~EndsWith(k, DotJson)
    \/ EndsWith(k, CatalogJson)
    \/ EndsWith(k, IservJson)
    \/ EndsWith(k, ProductJson)

----------------------------------------------------------------------------
(* The catalog tree, lines 135-232 *)

Link(rel, href) == [rel |-> rel, href |-> href]

\* Thing.add_link: append to the document's links
AddLink(node, link) == [node EXCEPT !.links = Append(@, link)]

root_catalog ==
    [id |-> RootId, description |-> <<"root_description">>,
     links |-> <<Link("root", root_href), Link("self", root_href)>>]

\* a lookup that never finds the node
LookupMiss(map, id) == [found |-> FALSE]

\* catalogs.get(catalog_id): the map key of the node found, or None
Lookup(map, id) ==
    IF id \in DOMAIN map THEN [found |-> TRUE, at |-> id] ELSE [found |-> FALSE]

\* every new node hung below the root
ParentKeyRoot(parents) == RootKey

\* the map key under which the parent of a new node is looked up
ParentKey(parents) == IF Len(parents) = 0 THEN RootKey ELSE Join(parents)

\* the links a new node is given
NewNodeLinks ==
    <<Link("root", root_href), Link("collection", root_href),
      Link("parent", ParentHref)>>

ChildHref(component) == component \o <<Slash>> \o CatalogJson

\* The loop over path_components from component i on.  t is [map, order,
\* created, catalog_id, catalog, ok]; ok is FALSE where strptime raised
\* ValueError, and then nothing of that iteration has taken effect.
RECURSIVE Components(_, _, _)
\* lines 201-230: no node is in the map under id
Create(t, comps, i, id, parent, text) ==
    IF ~text.ok
    THEN [t EXCEPT !.catalog_id = id, !.catalog = [found |-> FALSE],
                   !.ok = FALSE]
    ELSE Components(
             [map |-> (id :> [id |-> id, description |-> text.text,
                              links |-> NewNodeLinks])
                      @@ [t.map EXCEPT ![parent] =
                             AddLink(@, Link("child", ChildHref(comps[i])))],
              order |-> Append(t.order, id),
              created |-> Append(t.created, id),
              catalog_id |-> id,
              catalog |-> [found |-> TRUE, at |-> id],
              ok |-> TRUE],
             comps, i + 1)

\* lines 198-232: one component, whose id is looked up before it is created
Component(t, comps, i, parents, id, hit) ==
    IF hit.found
    THEN Components([t EXCEPT !.catalog_id = id, !.catalog = hit], comps, i + 1)
    ELSE Create(t, comps, i, id, ParentKey(parents),
                Description(id, Len(parents) + 1))

CatalogId(parents, component) == Join(Append(parents, component))

Components(t, comps, i) ==
    IF i > Len(comps) THEN t
    ELSE Component(t, comps, i, SubSeq(comps, 1, i - 1),
                   CatalogId(SubSeq(comps, 1, i - 1), comps[i]),
                   Lookup(t.map, CatalogId(SubSeq(comps, 1, i - 1), comps[i])))

\* key.key.split("/")[0:3]
PathComponents(k) ==
    LET p == Split(k)
    IN  SubSeq(p, 1, IF Len(p) < 3 THEN Len(p) ELSE 3)

----------------------------------------------------------------------------
(* The run *)

Init ==
    /\ listing \in DistinctSeqs(SourceKeys, MaxKeys)
    /\ idx = 1
    /\ pc = "loop"
    /\ catalogs = (RootKey :> root_catalog)
    /\ order = <<RootKey>>
    /\ created = <<>>
    /\ key = [bound |-> FALSE]
    /\ catalog_id = <<>>
    /\ catalog = [found |-> FALSE]
    /\ old_item = [bound |-> FALSE]
    /\ source = [bound |-> FALSE]
    /\ new_assets = EmptyDict
    /\ target = <<>>
    /\ emitted = <<>>
    /\ error = "none"
    /\ fault = [kind |-> "none"]
    /\ widx = 1

\* lines 186-193: the next key of the listing is not scene metadata
SkipKey ==
    /\ pc = "loop"
    /\ idx <= Len(listing)
    /\ IsSkip(listing[idx])
    /\ key' = [bound |-> TRUE, object |-> TRUE, key |-> listing[idx]]
    /\ idx' = idx + 1
    /\ UNCHANGED <<listing, pc, catalogs, order, created, catalog_id, catalog,
                   old_item, source, new_assets, target, emitted, error, fault,
                   widx>>

\* an exception swallowed: the loop goes on
RaisedContinue == "loop"

\* where an exception that nothing catches leaves the script
Raised == "aborted"

\* the component loop has left t behind for key k
Built(k, t) ==
    /\ key' = [bound |-> TRUE, object |-> TRUE, key |-> k]
    /\ catalogs' = t.map
    /\ order' = t.order
    /\ created' = t.created
    /\ catalog_id' = t.catalog_id
    /\ catalog' = t.catalog
    /\ IF t.ok
       THEN /\ pc' = "try"
            /\ UNCHANGED <<error, fault>>
       ELSE /\ pc' = Raised
            /\ error' = "ValueError"
            /\ fault' = [kind |-> "ValueError", key |-> k, read |-> FALSE]

\* lines 186-232: the next key is a scene's; its nodes are looked up or
\* created.  strptime raises outside the try statement.
BuildTree ==
    /\ pc = "loop"
    /\ idx <= Len(listing)
    /\ ~IsSkip(listing[idx])
    /\ Built(listing[idx],
             Components([map |-> catalogs, order |-> order,
                         created |-> created, catalog_id |-> catalog_id,
                         catalog |-> catalog, ok |-> TRUE],
                        PathComponents(listing[idx]), 1))
    /\ UNCHANGED <<listing, idx, old_item, source, new_assets, target, emitted,
                   widx>>

\* lines 365-367
Datetime(properties) ==
    Get(properties, "datetime", Get(properties, "start", None))

ItemHref(id) == id \o DotJson

\* line 378
ItemKey(cid, href) == StacVersion \o <<Slash>> \o cid \o <<Slash>> \o href

\* lines 358-376
NewItem(record, assets, cid) ==
    [type |-> "Feature", id |-> record.id, bbox |-> record.bbox,
     geometry |-> record.geometry,
     properties |-> [datetime |-> Datetime(record.properties)],
     assets |-> assets,
     links |-> <<Link("root", root_href), Link("parent", ParentHref),
                 Link("self", root_prefix \o cid \o <<Slash>>
                                  \o ItemHref(record.id))>>]

\* Lines 385-389 entered with exception exc: what the handler leaves in
\* key's place, in old_item and on the operator's output, and the exception
\* that leaves the handler.  key.key fails on a rebound key, old_item may
\* never have been assigned, and a record need not have a geometry.
Handler(exc, k, item, out) ==
    IF ~k.object
    THEN [error |-> "AttributeError", old_item |-> item, emitted |-> out]
    ELSE LET out1 == Append(out, [kind |-> "key", text |-> k.key])
         IN  IF ~item.bound
             THEN [error |-> "NameError", old_item |-> item, emitted |-> out1]
             ELSE IF "geometry" \notin DOMAIN item.data
             THEN [error |-> "KeyError", old_item |-> item, emitted |-> out1]
             ELSE LET stripped == [bound |-> TRUE,
                                   data |-> Del(item.data, "geometry")]
                  IN  [error |-> exc, old_item |-> stripped,
                       emitted |-> Append(out1, [kind |-> "record",
                                                 record |-> stripped.data])]

\* lines 238-384, the record read and its assets normalized to n
Assemble(k, cid, record, putOk, out, n) ==
    LET mutated == [bound |-> TRUE, data |-> [record EXCEPT !.assets = n.assets]]
        item_href == ItemHref(record.id)
        rebound == [bound |-> TRUE, object |-> FALSE,
                    text |-> ItemKey(cid, item_href)]
        printed == Append(out, [kind |-> "text", text |-> rebound.text])
    IN  IF ~n.ok
        THEN [raised |-> "KeyError", key |-> k, old_item |-> mutated,
              new_assets |-> n.out, emitted |-> out, put |-> <<>>,
              link |-> <<>>]
        ELSE IF ~putOk
        THEN [raised |-> "WriteError", key |-> rebound, old_item |-> mutated,
              new_assets |-> n.out, emitted |-> printed, put |-> <<>>,
              link |-> <<>>]
        ELSE [raised |-> "none", key |-> rebound, old_item |-> mutated,
              new_assets |-> n.out, emitted |-> printed,
              put |-> <<[key |-> rebound.text, kind |-> "item",
                         doc |-> NewItem(record, n.out, cid)]>>,
              link |-> <<[rel |-> "item", href |-> item_href,
                          title |-> record.id]>>]

\* Lines 234-384 for the listed key k: read is what obj.get returns and
\* putOk whether the target store accepts the item.  The result says which
\* exception, if any, reaches the handler, and what the block has done by
\* then.
TryBlock(k, cid, read, putOk, item, assets, out) ==
    IF ~read.ok
    THEN [raised |-> "ReadError", key |-> k, old_item |-> item,
          new_assets |-> assets, emitted |-> out, put |-> <<>>, link |-> <<>>]
    ELSE Assemble(k, cid, read.record, putOk, out,
                  Normalize(read.record.assets, SourcePrefix(k.key)))

\* the node that receives the item link: the variable catalog
Owner == catalog.at

\* the first exception of the run, the key it was raised for and whether
\* the key's record had been read
Fault(kind, k, read) == [kind |-> kind, key |-> k, read |-> read.ok]

\* the record as read, before the block changes it in place
Source(read, last) ==
    IF read.ok THEN [bound |-> TRUE, data |-> read.record] ELSE last

\* the try block has done b; h is what the handler does if b raised
Concluded(read, b, h) ==
    /\ key' = b.key
    /\ source' = Source(read, source)
    /\ new_assets' = b.new_assets
    /\ target' = target \o b.put
    /\ IF b.raised = "none"
       THEN /\ catalogs' = [catalogs EXCEPT ![Owner] = AddLink(@, b.link[1])]
            /\ old_item' = b.old_item
            /\ emitted' = b.emitted
            /\ idx' = idx + 1
            /\ pc' = "loop"
            /\ UNCHANGED <<error, fault>>
       ELSE /\ old_item' = h.old_item
            /\ emitted' = h.emitted
            /\ error' = h.error
            /\ fault' = Fault(b.raised, key.key, read)
            /\ pc' = Raised
            /\ UNCHANGED <<catalogs, idx>>

Handled(read, b) ==
    Concluded(read, b, Handler(b.raised, b.key, b.old_item, b.emitted))

\* lines 234-389: the try statement for the key whose nodes exist
ProcessRecord ==
    /\ pc = "try"
    /\ \E read \in {[ok |-> FALSE]} \cup
                   {[ok |-> TRUE, record |-> r] : r \in RecordsFor(key.key)},
          putOk \in BOOLEAN :
          Handled(read, TryBlock(key, catalog_id, read, putOk, old_item,
                                 new_assets, emitted))
    /\ UNCHANGED <<listing, order, created, catalog_id, catalog, widx>>

\* str.replace(pattern, "")
RECURSIVE Remove(_, _)
Remove(s, pattern) ==
    IF Len(s) < Len(pattern) THEN s
    ELSE IF SubSeq(s, 1, Len(pattern)) = pattern
         THEN Remove(SubSeq(s, Len(pattern) + 1, Len(s)), pattern)
         ELSE <<Head(s)>> \o Remove(Tail(s), pattern)

\* lines 394-397
CatalogKey(id) ==
    IF id = RootId THEN StacVersion \o <<Slash>> \o CatalogJson
    ELSE StacVersion \o <<Slash>> \o Remove(id, RootId) \o <<Slash>> \o CatalogJson

\* line 392
Element(node) ==
    [id |-> node.id, description |-> node.description, links |-> node.links,
     stac_version |-> StacVersion]

\* the loop over catalogs.values() nested in the loop over the listing
ListingDoneEarly == pc = "loop"

\* the for loop over the listing has ended
ListingDone == pc = "loop" /\ idx > Len(listing)

\* lines 391-401: one iteration of the loop over catalogs.values(), which
\* starts when the loop over the listing has ended
WriteCatalog ==
    /\ ListingDone
    /\ widx <= Len(order)
    /\ LET v == catalogs[order[widx]]
           k == CatalogKey(v.id)
       IN  /\ key' = [bound |-> TRUE, object |-> FALSE, text |-> k]
           /\ emitted' = Append(emitted, [kind |-> "text", text |-> k])
           /\ \E putOk \in BOOLEAN :
                 IF putOk
                 THEN /\ target' = Append(target, [key |-> k, kind |-> "catalog",
                                                   doc |-> Element(v)])
                      /\ widx' = widx + 1
                      /\ UNCHANGED <<pc, error, fault>>
                 ELSE /\ pc' = Raised
                      /\ error' = "WriteError"
                      /\ fault' = [kind |-> "WriteError", read |-> FALSE,
                                   node |-> v.id]
                      /\ UNCHANGED <<target, widx>>
    /\ UNCHANGED <<listing, idx, catalogs, order, created, catalog_id, catalog,
                   old_item, source, new_assets>>

\* the script ends after the last catalog document
Finish ==
    /\ ListingDone
    /\ widx > Len(order)
    /\ pc' = "done"
    /\ UNCHANGED <<listing, idx, catalogs, order, created, key, catalog_id,
                   catalog, old_item, source, new_assets, target, emitted,
                   error, fault, widx>>

Next == SkipKey \/ BuildTree \/ ProcessRecord \/ WriteCatalog \/ Finish

Spec == Init /\ [][Next]_vars

----------------------------------------------------------------------------
(* Vocabulary of the properties *)

Last(q) == q[Len(q)]

AllButLast(q) == SubSeq(q, 1, Len(q) - 1)

\* the positions of a node's links of one relation
LinksOf(node, rel) == {i \in 1..Len(node.links) : node.links[i].rel = rel}

\* the map key of the node one level above the node with this id
Up(id) == IF Len(Split(id)) = 1 THEN RootKey ELSE Join(AllButLast(Split(id)))

Prefixes(k) ==
    {Join(SubSeq(PathComponents(k), 1, m)) : m \in 1..Len(PathComponents(k))}

\* the keys among the first n of the listing that are scenes' records
Scenes(n) == SelectSeq(SubSeq(listing, 1, n), LAMBDA k : ~IsSkip(k))

ItemPuts == SelectSeq(target, LAMBDA w : w.kind = "item")

\* C1: the catalog map holds one node per prefix id, every node other than
\* the root was constructed exactly once however many keys share its prefix,
\* nothing was constructed that the map does not hold, and the prefixes of
\* every key processed so far are in the map.
InvC1 ==
    /\ \A id \in DOMAIN catalogs \ {RootKey} :
          /\ catalogs[id].id = id
          /\ Cardinality({i \in 1..Len(created) : created[i] = id}) = 1
    /\ \A i \in 1..Len(created) : created[i] \in DOMAIN catalogs \ {RootKey}
    /\ \A j \in 1..(idx - 1) :
          ~IsSkip(listing[j]) => Prefixes(listing[j]) \subseteq DOMAIN catalogs

\* two scenes of the same day have been processed
WitC1 ==
    /\ pc = "done"
    /\ \E i, j \in 1..Len(listing) :
          /\ i < j
          /\ ~IsSkip(listing[i])
          /\ ~IsSkip(listing[j])
          /\ PathComponents(listing[i]) = PathComponents(listing[j])
          /\ Len(PathComponents(listing[i])) = 3

\* C2: every node other than the root has exactly one parent link, which
\* points one level up, and the node one level above it holds exactly one
\* child link to it; a node holds no other child links, and the root has no
\* parent link.
InvC2 ==
    LET nodes == DOMAIN catalogs \ {RootKey}
        up == [id \in nodes |-> Up(id)]
        href == [id \in nodes |-> Last(Split(id)) \o <<Slash>> \o CatalogJson]
        children == [n \in DOMAIN catalogs |->
                        SelectSeq(catalogs[n].links, LAMBDA l : l.rel = "child")]
    IN  /\ LinksOf(catalogs[RootKey], "parent") = {}
        /\ \A id \in nodes :
              /\ Cardinality(LinksOf(catalogs[id], "parent")) = 1
              /\ \A i \in LinksOf(catalogs[id], "parent") :
                    catalogs[id].links[i].href = ParentHref
              /\ up[id] \in DOMAIN catalogs
              /\ Cardinality({i \in 1..Len(children[up[id]]) :
                     children[up[id]][i].href = href[id]}) = 1
        /\ \A n \in DOMAIN catalogs :
              Len(children[n]) = Cardinality({id \in nodes : up[id] = n})

\* a year with two months below it, and a day below a month
WitC2 ==
    /\ pc = "done"
    /\ \E n \in DOMAIN catalogs \ {RootKey} :
          Cardinality(LinksOf(catalogs[n], "child")) >= 2
    /\ \E id \in DOMAIN catalogs : id # RootKey /\ Len(Split(id)) = 3

\* C3 as claimed: a node that holds an item link is the year/month/day node
\* of a key, and the nodes above it exist.
CexC3 ==
    \A id \in DOMAIN catalogs :
        LinksOf(catalogs[id], "item") # {} =>
            /\ id # RootKey
            /\ Len(Split(id)) = 3
            /\ Up(id) \in DOMAIN catalogs
            /\ Up(Up(id)) \in DOMAIN catalogs

\* what a key with path components c and file name f adds to the document
\* of a node: its item link if the node is the key's last prefix, a child
\* link if the node is above one of the key's prefixes
Contributed(c, f, doc) ==
    /\ doc.id = Join(c) =>
          \E i \in 1..Len(doc.links) :
              doc.links[i].rel = "item" /\ doc.links[i].href = f
    /\ \A m \in 0..(Len(c) - 1) :
          doc.id = (IF m = 0 THEN RootId ELSE Join(SubSeq(c, 1, m))) =>
              \E i \in 1..Len(doc.links) :
                  /\ doc.links[i].rel = "child"
                  /\ doc.links[i].href = c[m + 1] \o <<Slash>> \o CatalogJson

\* C4: a catalog document is put only when every key of the listing has been
\* processed, no item document is put after it, the item documents are put
\* in listing order, and the catalog document holds the item and child
\* links of every scene of the listing.
InvC4 ==
    LET scenes == Scenes(idx - 1)
        items == ItemPuts
        all == Scenes(Len(listing))
        parts == [j \in 1..Len(all) |-> PathComponents(all[j])]
        file == [j \in 1..Len(all) |-> Last(Split(all[j]))]
    IN  /\ \A i \in 1..Len(target) :
              target[i].kind = "catalog" =>
                  /\ idx > Len(listing)
                  /\ \A j \in i..Len(target) : target[j].kind = "catalog"
                  /\ \A j \in 1..Len(all) :
                        Contributed(parts[j], file[j], target[i].doc)
        /\ Len(items) = Len(scenes)
        /\ \A i \in 1..Len(items) :
              items[i].key = StacVersion \o <<Slash>> \o Join(parts[i])
                                 \o <<Slash>> \o file[i]

\* a whole run that wrote two items and then the root, a year, a month and
\* a day
WitC4 ==
    /\ pc = "done"
    /\ Len(ItemPuts) >= 2
    /\ Len(target) - Len(ItemPuts) >= 4

\* C5 as claimed: when the run has aborted on a key, the exception that
\* ends it is the one first raised, the key has been printed and, if its
\* record was read, so has the record as the bucket holds it less geometry.
CexC5 ==
    (pc = "aborted" /\ "key" \in DOMAIN fault) =>
        /\ error = fault.kind
        /\ \E i \in 1..Len(emitted) :
              emitted[i] = [kind |-> "key", text |-> fault.key]
        /\ fault.read =>
              \E i \in 1..Len(emitted) :
                  /\ emitted[i].kind = "record"
                  /\ DOMAIN emitted[i].record = DOMAIN source.data \ {"geometry"}
                  /\ emitted[i].record.id = source.data.id
                  /\ emitted[i].record.assets = source.data.assets

MissingDatetime(record) ==
    "datetime" \notin DOMAIN record.properties
        /\ "start" \notin DOMAIN record.properties

\* C6 as claimed: once a record with neither datetime nor start has been
\* read the run has aborted, and no item document without a datetime has
\* been put.
CexC6 ==
    /\ (pc # "try" /\ source.bound /\ MissingDatetime(source.data)) =>
          pc = "aborted" /\ error # "none"
    /\ \A i \in 1..Len(ItemPuts) : ItemPuts[i].doc.properties.datetime # None

\* C7: from the first exception on nothing is put, no node is created, no
\* link is added and the loop over the listing does not advance.
InvC7 ==
    [][fault.kind # "none" =>
          UNCHANGED <<target, catalogs, order, created, idx, widx>>]_vars

\* the run has aborted after an item was put and with keys left to process
WitC7 ==
    /\ pc = "aborted"
    /\ fault.kind # "none"
    /\ Len(ItemPuts) >= 1
    /\ idx < Len(listing)
    /\ ~IsSkip(listing[idx + 1])

ReservedNames == {CatalogJson, IservJson, ProductJson}

\* C10 as claimed: the key the loop has just taken was passed over exactly
\* when it does not end in .json or its file name is a reserved name.  (The
\* loop is back at its head with key still the listed object only after a
\* continue.)
CexC10 ==
    (key.bound /\ key.object /\ pc \in {"loop", "try"}) =>
        ((pc = "loop") <=>
            (~EndsWith(key.key, DotJson) \/ Last(Split(key.key)) \in ReservedNames))

----------------------------------------------------------------------------
(* Asset normalization on its own: one record, read and then normalized *)

AllRoles == MandatoryRoles \cup {"tiff world file"}

\* a legacy asset of the mapping shape, with or without a format field
LegacyForms ==
    { [href |-> <<"x">>, name |-> "legacy name"],
      [href |-> <<"x">>, name |-> "legacy name", format |-> "legacy format"] }

MappingInputs ==
    { [shape |-> "dict", body |-> f] :
        f \in UNION { [R -> LegacyForms] : R \in SUBSET AllRoles } }

\* file names of list-shape assets: one per suffix the program knows, and
\* two it does not know
ListHrefs ==
    << <<"x", ".", "T", "F", "W">>, <<"x", ".", "J", "P", "G">>,
       <<"x", ".", "p", "n", "g">>, <<"x", ".", "J", "G", "W">>,
       <<"x", ".", "J", "P", "G", ".", "o", "v", "r">>,
       <<"x", ".", "T", "I", "F">>, <<"x", ".", "x", "m", "l">>,
       <<"x", ".", "j", "p", "g">> >>

HrefSet == {ListHrefs[i] : i \in 1..Len(ListHrefs)}

\* every set of file names once, in a fixed order, and every list of at
\* most MaxEntries file names
ListInputs ==
    { [shape |-> "list",
       body |-> [i \in 1..Len(q) |-> [href |-> q[i]]]] :
        q \in { SelectSeq(ListHrefs, LAMBDA h : h \in S) : S \in SUBSET HrefSet }
              \cup UNION { [1..m -> HrefSet] : m \in 0..MaxEntries } }

NormInputs == MappingInputs \cup ListInputs \cup {[shape |-> "null"]}

NormKey == Path(<<Y2013, M03, D27, <<"x">> \o DotJson>>)

InitNorm ==
    /\ listing = <<NormKey>>
    /\ idx = 1
    /\ pc = "norm"
    /\ catalogs = (RootKey :> root_catalog)
    /\ order = <<RootKey>>
    /\ created = <<>>
    /\ key = [bound |-> TRUE, object |-> TRUE, key |-> NormKey]
    /\ catalog_id = <<>>
    /\ catalog = [found |-> FALSE]
    /\ \E a \in NormInputs :
          /\ source = [bound |-> TRUE,
                       data |-> LegacyRecord(Stem(NormKey), EmptyDict, a)]
          /\ old_item = source
    /\ new_assets = EmptyDict
    /\ target = <<>>
    /\ emitted = <<>>
    /\ error = "none"
    /\ fault = [kind |-> "none"]
    /\ widx = 1

Normalized(n) ==
    /\ old_item' = [old_item EXCEPT !.data.assets = n.assets]
    /\ new_assets' = n.out
    /\ error' = IF n.ok THEN "none" ELSE "KeyError"
    /\ pc' = "normed"

\* lines 238-356 on the record just read
NormalizeAssets ==
    /\ pc = "norm"
    /\ Normalized(Normalize(old_item.data.assets, SourcePrefix(key.key)))
    /\ UNCHANGED <<listing, idx, catalogs, order, created, key, catalog_id,
                   catalog, source, target, emitted, fault, widx>>

NextNorm == NormalizeAssets

SpecNorm == InitNorm /\ [][NextNorm]_vars

\* the output keys whose suffix some entry of a list-shape value ends in
Matched(entries) ==
    { ListPlan[i].out : i \in { j \in 1..Len(ListPlan) :
          \E e \in 1..Len(entries) :
              EndsWith(entries[e].href, ListPlan[j].suffix) } }

Legacy == source.data.assets

\* C8: a mapping-shape value without one of the six mandatory roles raises;
\* one with all six (and cog's format) does not, with or without tiff world
\* file, which is output exactly when it is there.  A list-shape value never
\* raises, and its output holds exactly the roles some entry's suffix
\* matches, each with the href of such an entry.
InvC8 ==
    pc = "normed" =>
        /\ Legacy.shape = "dict" =>
              /\ ~(MandatoryRoles \subseteq DOMAIN Legacy.body) =>
                    error = "KeyError"
              /\ (/\ MandatoryRoles \subseteq DOMAIN Legacy.body
                  /\ "format" \in DOMAIN Legacy.body["cog"]) =>
                    /\ error = "none"
                    /\ "original TIFF world file" \in DOMAIN new_assets
                           <=> "tiff world file" \in DOMAIN Legacy.body
        /\ Legacy.shape = "list" =>
              /\ error = "none"
              /\ DOMAIN new_assets = Matched(Legacy.body)
              /\ \A k \in DOMAIN new_assets :
                    \E e \in 1..Len(Legacy.body) :
                        new_assets[k].href =
                            SourcePrefix(key.key) \o <<Slash>> \o Legacy.body[e].href

\* a mapping-shape value with the six mandatory roles and no tiff world
\* file, and the output of its normalization
WitC8 ==
    /\ pc = "normed"
    /\ Legacy.shape = "dict"
    /\ DOMAIN Legacy.body = MandatoryRoles
    /\ error = "none"
    /\ Cardinality(DOMAIN new_assets) = 6

\* C9 as claimed: every normalized asset has the fields href, title and
\* type, original TIFF has eo:bands besides, and none has another field.
CexC9 ==
    (pc = "normed" /\ error = "none") =>
        \A k \in DOMAIN new_assets :
            DOMAIN new_assets[k] =
                {"href", "title", "type"} \cup
                    (IF k = "original TIFF" THEN {"eo:bands"} ELSE {})

====
